---- MODULE Spec2Model ----
(***************************************************************************)
(* Freshness Engine of the kitchen-command-center backend                  *)
(* (backend/app/services/freshness.py and its collaborators).              *)
(*                                                                         *)
(* Dates are day numbers (integers); a timedelta is a number of days.      *)
(* An optional date or integer (a nullable column) is a sequence of length *)
(* at most one: <<>> is None, <<d>> is the value d.  An optional string    *)
(* is a string, with NoneStr standing for None.                            *)
(***************************************************************************)
EXTENDS Integers, Sequences, FiniteSets, TLC

VARIABLES
    today,      \* date.today(), the day every classification reads
    items,      \* table pantry_items: item id -> committed row
    rules,      \* table freshness_rules: sequence of committed rows
    pc,         \* per process: position inside its current operation
    frame,      \* per process: the locals of the operation it is running
    ret,        \* per process: what its last finished operation returned
    pre,        \* per process: the rows the query of its last scan loaded
    probe,      \* inputs of one call of calculate_freshness_rule_based
    result,     \* what that call returned
    feed,       \* _notifications: user id -> list of notification dicts
    issued,     \* per user: how many notifications the store has stamped
    meals,      \* table meal_plans: meal id -> committed row
    nret        \* what the last call on the notification store returned

vars == <<today, items, rules, pc, frame, ret, pre, probe, result,
          feed, issued, meals, nret>>

(***************************************************************************)
(* Optional values and Python truthiness                                   *)
(***************************************************************************)
None == <<>>
Some(v) == <<v>>
NoneStr == "<None>"

\* a date is truthy whenever it is not None
HasDate(d) == d # None
\* an int is truthy when it is neither None nor 0
TruthyInt(n) == n # None /\ n[1] # 0
\* a str is truthy when it is neither None nor empty
TruthyStr(s) == s # NoneStr /\ s # ""

Min(a, b) == IF a <= b THEN a ELSE b
Max(a, b) == IF a >= b THEN a ELSE b

\* str.lower() and str.strip() on the strings the model feeds them
LowerTable ==
    [s \in {"Freezer", "Seafood", "Dairy", " Shrimp "} |->
        CASE s = "Freezer"  -> "freezer"
          [] s = "Seafood"  -> "seafood"
          [] s = "Dairy"    -> "dairy"
          [] s = " Shrimp " -> " shrimp "]
lower(s) == IF s \in DOMAIN LowerTable THEN LowerTable[s] ELSE s
StripTable ==
    [s \in {" shrimp ", " Shrimp "} |->
        CASE s = " shrimp " -> "shrimp"
          [] s = " Shrimp " -> "Shrimp"]
strip(s) == IF s \in DOMAIN StripTable THEN StripTable[s] ELSE s

(***************************************************************************)
(* Shelf-life knowledge base: the static category defaults                 *)
(***************************************************************************)
CategoryNames ==
    {"produce", "dairy", "meat", "seafood", "grains", "spices", "canned",
     "frozen", "condiments", "baking", "beverages", "snacks", "oils",
     "asian_pantry", "latin_pantry", "preserved", "alcohol"}

\* category -> <<sealed_days, opened_days>>
DEFAULT_SHELF_LIFE ==
    [c \in CategoryNames |->
        CASE c = "produce"      -> <<7, 4>>
          [] c = "dairy"        -> <<14, 7>>
          [] c = "meat"         -> <<5, 3>>
          [] c = "seafood"      -> <<3, 2>>
          [] c = "grains"       -> <<365, 180>>
          [] c = "spices"       -> <<730, 365>>
          [] c = "canned"       -> <<730, 5>>
          [] c = "frozen"       -> <<180, 90>>
          [] c = "condiments"   -> <<365, 90>>
          [] c = "baking"       -> <<365, 180>>
          [] c = "beverages"    -> <<365, 7>>
          [] c = "snacks"       -> <<90, 14>>
          [] c = "oils"         -> <<365, 180>>
          [] c = "asian_pantry" -> <<365, 90>>
          [] c = "latin_pantry" -> <<365, 90>>
          [] c = "preserved"    -> <<365, 30>>
          [] c = "alcohol"      -> <<730, 365>>]

\* DEFAULT_SHELF_LIFE.get(category, (30, 14)) on (item.category or "").lower()
FallbackShelfLife == <<30, 14>>
category_default(category) ==
    LET c == lower(IF category = NoneStr THEN "" ELSE category)
    IN  IF c \in DOMAIN DEFAULT_SHELF_LIFE THEN DEFAULT_SHELF_LIFE[c]
        ELSE FallbackShelfLife

(***************************************************************************)
(* Status classifier                                                       *)
(***************************************************************************)
Statuses == {"fresh", "use_soon", "use_today", "expired"}

_status_from_days_remaining(days_left) ==
    IF days_left <= 0 THEN "expired"
    ELSE IF days_left <= 1 THEN "use_today"
    ELSE IF days_left <= 4 THEN "use_soon"
    ELSE "fresh"

frozen_days == 180

\* freezer handling of the category-default path: a flipped comparison
\* (the freezer date replaces the result whenever it is the earlier one)
freezer_extension_min(item, effective_exp) ==
    IF TruthyStr(item.location) /\ lower(item.location) = "freezer"
       /\ HasDate(item.purchase_date)
    THEN Min(effective_exp, item.purchase_date[1] + frozen_days)
    ELSE effective_exp

\* "Special handling for frozen items" of the category-default path
freezer_extension(item, effective_exp) ==
    IF TruthyStr(item.location) /\ lower(item.location) = "freezer"
    THEN IF HasDate(item.purchase_date)
         THEN Max(effective_exp, item.purchase_date[1] + frozen_days)
         ELSE effective_exp
    ELSE effective_exp

\* "Use the earlier of printed expiration and calculated expiration"
printed_ceiling(item, effective_exp) ==
    IF HasDate(item.expiration_date)
    THEN Min(effective_exp, item.expiration_date[1])
    ELSE effective_exp

Classified(exp, day) ==
    [status |-> _status_from_days_remaining(exp - day), effective_exp |-> Some(exp)]
FreshNoDate == [status |-> "fresh", effective_exp |-> None]

\* the branch taken when a rule row is passed
rule_branch(item, r, day) ==
    IF HasDate(item.opened_date) /\ TruthyInt(r.opened_shelf_life_days)
    THEN Classified(printed_ceiling(item,
             item.opened_date[1] + r.opened_shelf_life_days[1]), day)
    ELSE IF HasDate(item.purchase_date) /\ TruthyInt(r.sealed_shelf_life_days)
    THEN Classified(printed_ceiling(item,
             item.purchase_date[1] + r.sealed_shelf_life_days[1]), day)
    ELSE IF HasDate(item.expiration_date)
    THEN Classified(printed_ceiling(item, item.expiration_date[1]), day)
    ELSE FreshNoDate

\* the branch taken with rule = None: category defaults, then the freezer
default_branch(item, day) ==
    LET d == category_default(item.category)
        sealed_days == d[1]
        opened_days == d[2]
    IN  IF HasDate(item.opened_date)
        THEN Classified(freezer_extension(item, printed_ceiling(item,
                 item.opened_date[1] + opened_days)), day)
        ELSE IF HasDate(item.purchase_date)
        THEN Classified(freezer_extension(item, printed_ceiling(item,
                 item.purchase_date[1] + sealed_days)), day)
        ELSE IF HasDate(item.expiration_date)
        THEN Classified(freezer_extension(item, printed_ceiling(item,
                 item.expiration_date[1])), day)
        ELSE FreshNoDate

\* rule is None (<<>>) or Some(row); day is date.today()
calculate_freshness_rule_based(item, rule, day) ==
    IF rule # None THEN rule_branch(item, rule[1], day)
    ELSE default_branch(item, day)

(***************************************************************************)
(* Bounds of the model                                                     *)
(***************************************************************************)
MaxToday == 3        \* the days 0..MaxToday pass while the model runs
MaxOpened == 1       \* probe items are opened on a day of 0..MaxOpened
MaxRuleDays == 2     \* probe rules give shelf lives of 0..MaxRuleDays days
ExpWindow == 1       \* printed dates lie within ExpWindow days of a candidate
Window == 6          \* today runs from 1 day after a candidate to Window days before

(***************************************************************************)
(* The stores: pantry_items and freshness_rules                            *)
(***************************************************************************)
Procs == {"w1", "w2"}        \* worker processes, each with its own Session
Users == {"u1", "u2"}
ItemIds == {"i1", "i2", "i3", "i4", "i5"}

Row(user, name, canonical, category, location, purchase, opened, printed, status, expires) ==
    [user_id |-> user, name |-> name, canonical_name |-> canonical,
     category |-> category, location |-> location,
     purchase_date |-> purchase, opened_date |-> opened,
     expiration_date |-> printed,
     freshness_status |-> status, freshness_expires_at |-> expires]

\* a row of freshness_rules (models/waste.py); canonical_name is unique
RuleRow(canonical, category, sealed, opened, location, tips, source) ==
    [canonical_name |-> canonical, category |-> category,
     sealed_shelf_life_days |-> sealed, opened_shelf_life_days |-> opened,
     storage_location |-> location, storage_tips |-> tips,
     freezable |-> NoneStr, frozen_shelf_life_days |-> None,
     source |-> source]

\* a curated rule that may be in the table before any scan
SeedRule == RuleRow("shrimp", "seafood", Some(2), Some(1), "fridge", NoneStr, "curated")

\* an item that carries no date may hold any status an earlier run left on it
UndatedStates == {<<"fresh", None>>, <<"use_today", Some(1)>>}

Inventory(undated) ==
    [i \in ItemIds |->
        CASE i = "i1" -> Row("u1", "Shrimp", "shrimp", "seafood", "fridge",
                             Some(0), None, None, "fresh", None)
          [] i = "i2" -> Row("u1", "Prawns", " Shrimp ", "produce", "pantry",
                             Some(0), None, None, "fresh", None)
          [] i = "i3" -> Row("u1", "Salt", NoneStr, NoneStr, NoneStr,
                             None, None, None, undated[1], undated[2])
          [] i = "i4" -> Row("u2", "Shrimp", "shrimp", "Seafood", "Freezer",
                             Some(0), None, Some(2), "fresh", None)
          [] i = "i5" -> Row("u2", "Milk", "milk", "dairy", "fridge",
                             None, None, Some(0), "fresh", None)]

\* db.query(FreshnessRule).filter(canonical_name == canonical).first()
lookup_rule(tbl, canonical) ==
    IF \E k \in 1..Len(tbl) : tbl[k].canonical_name = canonical
    THEN Some(tbl[CHOOSE k \in 1..Len(tbl) :
                    /\ tbl[k].canonical_name = canonical
                    /\ \A j \in 1..(k - 1) : tbl[j].canonical_name # canonical])
    ELSE None

\* (item.canonical_name or "").lower().strip()
canonical_of(row) ==
    strip(lower(IF row.canonical_name = NoneStr THEN "" ELSE row.canonical_name))

(***************************************************************************)
(* The external estimator (services/kitchen_ai.py)                         *)
(***************************************************************************)
\* the parameters of KitchenAI.calculate_freshness besides self
calculate_freshness_params == {"item", "rules"}
\* a call that names the rule context as the method does
call_keywords_rules == {"rules"}
\* how update_item_freshness passes its arguments: the item dict
\* positionally (it binds to "item") and the rule context by keyword
call_keywords == {"rule"}
\* Python binds the call only when every keyword names a parameter;
\* otherwise the call raises TypeError before the estimator is reached
CallBinds == call_keywords \subseteq calculate_freshness_params

\* str(date) and date.fromisoformat on the dates the model handles
IsoDates == (0 - 2)..(MaxToday + frozen_days + 2)
isoformat(d) == ToString(d)
fromisoformat(s) ==
    IF \E d \in IsoDates : isoformat(d) = s
    THEN Some(CHOOSE d \in IsoDates : isoformat(d) = s)
    ELSE None

Reply(kind, status, exp, tips) ==
    [kind |-> kind, freshness_status |-> status,
     effective_expiration_date |-> exp, storage_tips |-> tips]
TypeErrorReply == Reply("TypeError", NoneStr, NoneStr, NoneStr)
\* what an estimator call that binds can produce: an exception from
\* _call_claude, text _extract_json cannot parse, or a parsed dict
AiReplies(day) ==
    {Reply("raise", NoneStr, NoneStr, NoneStr),
     Reply("unparseable", NoneStr, NoneStr, NoneStr)}
    \cup {Reply("ok", st, e, "keep cold") :
            st \in {"expired", "use_soon", NoneStr},
            e \in {isoformat(day + 1), "soon", NoneStr}}
\* ai.calculate_freshness(item_dict, rule=...) as update_item_freshness calls it
calculate_freshness(day) ==
    IF CallBinds THEN AiReplies(day) ELSE {TypeErrorReply}

(***************************************************************************)
(* update_item_freshness                                                   *)
(***************************************************************************)
\* _cache_freshness_rule builds this row from the estimate and the item
new_rule_row(canonical, row, ai_result) ==
    LET exp_str  == ai_result.effective_expiration_date
        exp_date == IF TruthyStr(exp_str) THEN fromisoformat(exp_str) ELSE None
        sealed_days ==
            IF exp_date # None /\ HasDate(row.purchase_date) /\ ~HasDate(row.opened_date)
            THEN Some(exp_date[1] - row.purchase_date[1]) ELSE None
        opened_days ==
            IF exp_date # None /\ HasDate(row.opened_date)
            THEN Some(exp_date[1] - row.opened_date[1]) ELSE None
    IN  RuleRow(canonical, row.category, sealed_days, opened_days,
                row.location, ai_result.storage_tips, "AI estimate")

\* db.flush() of the added rule: the unique index on canonical_name
\* rejects the INSERT when a row with that name is in the table
flush_conflicts(tbl, new_rule) ==
    \E k \in 1..Len(tbl) : tbl[k].canonical_name = new_rule.canonical_name

\* what lines 132-181 leave in the session: the status and the effective
\* expiration assigned to the item, the rule table, and whether the
\* session was rolled back (which discards the assignments)
Outcome(status, expires, tbl, rolled_back) ==
    [status |-> status, expires |-> expires, rules |-> tbl,
     rolled_back |-> rolled_back]

RuleBased(row, rule, day, tbl) ==
    LET r == calculate_freshness_rule_based(row, rule, day)
    IN  Outcome(r.status, r.effective_exp, tbl, FALSE)

\* the except branch, had it kept the rule it looked up
ai_failed_keep_rule(row, rule, day, tbl) == RuleBased(row, rule, day, tbl)

\* except Exception: fall back to rule-based with category defaults
ai_failed(row, rule, day, tbl) == RuleBased(row, None, day, tbl)

\* the try block after an estimate came back
ai_answered(row, rule, canonical, reply, tbl) ==
    LET status  == IF reply.freshness_status = NoneStr THEN "fresh"
                   ELSE reply.freshness_status
        exp_str == reply.effective_expiration_date
        parsed  == IF TruthyStr(exp_str) THEN fromisoformat(exp_str) ELSE None
        expires == IF parsed # None THEN parsed ELSE row.freshness_expires_at
        new_rule == new_rule_row(canonical, row, reply)
    IN  IF rule = None /\ TruthyStr(canonical)
        THEN IF flush_conflicts(tbl, new_rule)
             THEN Outcome(status, expires, tbl, TRUE)
             ELSE Outcome(status, expires, Append(tbl, new_rule), FALSE)
        ELSE Outcome(status, expires, tbl, FALSE)

\* a dispatch that asks the estimator whenever one is passed
classify_estimator_first(row, rule, canonical, ai, force_ai, reply, day, tbl) ==
    IF ai
    THEN IF reply.kind = "ok"
         THEN ai_answered(row, rule, canonical, reply, tbl)
         ELSE ai_failed(row, rule, day, tbl)
    ELSE RuleBased(row, rule, day, tbl)

\* a rule-based path that refreshes the category of the rule it used
classify_touching_rule(row, rule, canonical, ai, force_ai, reply, day, tbl) ==
    IF rule # None /\ ~force_ai
    THEN RuleBased(row, rule, day,
             [k \in 1..Len(tbl) |->
                 IF tbl[k].canonical_name = canonical
                 THEN [tbl[k] EXCEPT !.category = row.category] ELSE tbl[k]])
    ELSE IF ai /\ (force_ai \/ rule = None)
    THEN IF reply.kind = "ok"
         THEN ai_answered(row, rule, canonical, reply, tbl)
         ELSE ai_failed(row, rule, day, tbl)
    ELSE RuleBased(row, None, day, tbl)

\* lines 132-181: rule, estimator or category defaults
classify(row, rule, canonical, ai, force_ai, reply, day, tbl) ==
    IF rule # None /\ ~force_ai
    THEN RuleBased(row, rule, day, tbl)
    ELSE IF ai /\ (force_ai \/ rule = None)
    THEN IF reply.kind = "ok"
         THEN ai_answered(row, rule, canonical, reply, tbl)
         ELSE ai_failed(row, rule, day, tbl)
    ELSE RuleBased(row, None, day, tbl)

\* db.commit(): the UPDATE carries the attributes whose assigned value
\* differs from the value the session loaded; after a rollback nothing
\* is pending
committed_row(db_row, loaded, out) ==
    IF out.rolled_back THEN db_row
    ELSE [db_row EXCEPT
            !.freshness_status =
                IF out.status # loaded.freshness_status THEN out.status ELSE @,
            !.freshness_expires_at =
                IF out.expires # loaded.freshness_expires_at THEN out.expires ELSE @]

\* a summary dict that reports every classification as a change
result_dict_always_changed(id, old_status, row_after) ==
    [item_id |-> id, name |-> row_after.name,
     old_status |-> old_status,
     new_status |-> row_after.freshness_status,
     effective_expiration |->
        IF row_after.freshness_expires_at # None
        THEN isoformat(row_after.freshness_expires_at[1]) ELSE NoneStr,
     changed |-> TRUE]

\* the summary dict of lines 185-192, read from the item after the commit
result_dict(id, old_status, row_after) ==
    [item_id |-> id, name |-> row_after.name,
     old_status |-> old_status,
     new_status |-> row_after.freshness_status,
     effective_expiration |->
        IF row_after.freshness_expires_at # None
        THEN isoformat(row_after.freshness_expires_at[1]) ELSE NoneStr,
     changed |-> old_status # row_after.freshness_status]

(***************************************************************************)
(* Processes: the position and the locals of the running operation         *)
(***************************************************************************)
IdleFrame ==
    [op |-> "none", user |-> NoneStr, ai |-> FALSE, force_ai |-> FALSE,
     todo |-> {}, item |-> NoneStr, row |-> None, rule |-> None,
     canonical |-> "", old_status |-> NoneStr, unexpired |-> FALSE,
     results |-> <<>>, changes |-> 0, alerts |-> <<>>,
     \* what the last classification of the operation met: the day it
     \* read, how its estimator call ended ("none": no call), and whether
     \* another process was between lookup and commit on the same name
     day |-> 0, estimator |-> "none", raced |-> FALSE,
     \* the items of the operation whose estimator call raised
     failed |-> {},
     \* the items of the operation for which the estimator was called
     asked |-> {},
     \* the rule table as it stood when the scan was called
     rules_before |-> <<>>,
     \* the scan repeats, on the same day, the scan the process returned from
     repeat |-> FALSE,
     \* who called run_freshness_scan ("direct": a caller that takes the
     \* summary as it is) and the force_ai field of the request body
     caller |-> "direct", body_force_ai |-> FALSE]

NoReturn ==
    [op |-> "none", detail |-> None, items_scanned |-> 0, items_changed |-> 0,
     alerts |-> <<>>, details |-> <<>>]

\* no scan of the process has queried its items
NoSnapshot == Inventory(<<"fresh", None>>)

\* a worker takes its next request after a return and after an exception
\* that ended the last one (answered with status 500)
CanStart(p) == pc[p] \in {"idle", "returned", "raised"}

\* the row of item i as the session of p sees it: the copy its query
\* loaded until the first commit expires it, the committed row afterwards
SessionRow(p, i) == IF frame[p].unexpired THEN pre[p][i] ELSE items[i]

\* a caller passes one loaded item, one of ids, to update_item_freshness
CallUpdateOn(p, ids) ==
    /\ CanStart(p)
    /\ \E i \in ids, ai \in BOOLEAN, force_ai \in BOOLEAN :
          frame' = [frame EXCEPT ![p] =
                      [IdleFrame EXCEPT !.op = "update", !.item = i, !.ai = ai,
                                        !.force_ai = force_ai]]
    /\ pc' = [pc EXCEPT ![p] = "lookup"]
    /\ ret' = [ret EXCEPT ![p] = NoReturn]
    /\ pre' = [pre EXCEPT ![p] = NoSnapshot]
    /\ UNCHANGED <<today, items, rules, probe, result, feed, issued, meals, nret>>

CallUpdate(p) == CallUpdateOn(p, ItemIds)

\* the two items of one user whose canonical names normalise to "shrimp"
SharedNameItems == {"i1", "i2"}
CallUpdateShared(p) == CallUpdateOn(p, SharedNameItems)

\* lines 120-130: canonical name, rule lookup, old_status
Lookup(p) ==
    /\ pc[p] = "lookup"
    /\ LET row == SessionRow(p, frame[p].item)
           canonical == canonical_of(row)
       IN  frame' = [frame EXCEPT ![p] =
                       [@ EXCEPT !.row = Some(row), !.canonical = canonical,
                                 !.rule = IF TruthyStr(canonical)
                                          THEN lookup_rule(rules, canonical)
                                          ELSE None,
                                 !.old_status = row.freshness_status,
                                 !.raced =
                                    \E q \in Procs \ {p} :
                                       /\ pc[q] = "classify"
                                       /\ frame[q].canonical = canonical]]
    /\ pc' = [pc EXCEPT ![p] = "classify"]
    /\ UNCHANGED <<today, items, rules, ret, pre, probe, result, feed, issued, meals, nret>>

\* the alert test of the scan loop, taken for use_soon as well
alert_worthy_soon(res) ==
    res.changed /\ res.new_status \in {"use_soon", "use_today", "expired"}

\* lines 261-263: a changed item whose new status is use_today or expired
alert_worthy(res) ==
    res.changed /\ res.new_status \in {"use_today", "expired"}

\* lines 264-269
alert_of(res) ==
    [item_id |-> res.item_id, name |-> res.name, status |-> res.new_status,
     old_status |-> res.old_status]

\* the scan loop's bookkeeping, had it counted every result as a change
record_result_count_all(f, res) ==
    [f EXCEPT !.results = Append(@, res),
              !.changes = @ + 1,
              !.alerts  = IF alert_worthy(res) THEN Append(@, alert_of(res)) ELSE @,
              !.item = NoneStr, !.row = None, !.rule = None,
              !.canonical = "", !.old_status = NoneStr, !.unexpired = FALSE]

\* lines 259-269: the scan loop's bookkeeping for one result
record_result(f, res) ==
    [f EXCEPT !.results = Append(@, res),
              !.changes = IF res.changed THEN @ + 1 ELSE @,
              !.alerts  = IF alert_worthy(res) THEN Append(@, alert_of(res)) ELSE @,
              !.item = NoneStr, !.row = None, !.rule = None,
              !.canonical = "", !.old_status = NoneStr, !.unexpired = FALSE]

\* which estimator call lines 137-159 make, and how it ended
estimator_outcome(f, reply) ==
    IF (f.rule # None /\ ~f.force_ai) \/ ~(f.ai /\ (f.force_ai \/ f.rule = None))
    THEN "none" ELSE reply.kind

\* an except clause that names RuntimeError only
except_RuntimeError(kind) == kind = "raise"

\* line 172, except Exception: TypeError, the RuntimeError of _call_claude
\* and the ValueError of a reply that does not parse are all caught
except_Exception(kind) == kind \in {"TypeError", "raise", "unparseable"}

\* lines 132-192: classify, commit, build the summary dict; then either
\* return it (a direct call) or hand it to the scan loop (lines 258-269);
\* an exception the except clause lets through leaves the operation
Classify(p) ==
    /\ pc[p] = "classify"
    /\ \E reply \in calculate_freshness(today) :
          LET f0  == frame[p]
              i   == f0.item
              kind == estimator_outcome(f0, reply)
              threw == kind \notin {"none", "ok"}
              f   == [f0 EXCEPT !.day = today, !.estimator = kind,
                                !.failed = IF threw THEN @ \cup {i} ELSE @,
                                !.asked = IF kind # "none" THEN @ \cup {i} ELSE @]
              out == classify(f.row[1], f.rule, f.canonical, f.ai, f.force_ai,
                              reply, today, rules)
              after == committed_row(items[i], f.row[1], out)
              res == result_dict(i, f.old_status, after)
          IN  IF threw /\ ~except_Exception(kind)
              THEN /\ frame' = [frame EXCEPT ![p] = f]
                   /\ pc' = [pc EXCEPT ![p] = "raised"]
                   /\ UNCHANGED <<items, rules, ret>>
              ELSE /\ items' = [items EXCEPT ![i] = after]
                   /\ rules' = IF out.rolled_back THEN rules ELSE out.rules
                   /\ IF f.op = "scan"
                      THEN /\ frame' = [frame EXCEPT ![p] = record_result(f, res)]
                           /\ pc' = [pc EXCEPT ![p] = "loop"]
                           /\ ret' = ret
                      ELSE /\ frame' = [frame EXCEPT ![p] = f]
                           /\ pc' = [pc EXCEPT ![p] = "returned"]
                           /\ ret' = [ret EXCEPT ![p] =
                                        [NoReturn EXCEPT !.op = "update",
                                                         !.detail = Some(res)]]
    /\ UNCHANGED <<today, pre, probe, result, feed, issued, meals, nret>>

(***************************************************************************)
(* run_freshness_scan                                                      *)
(***************************************************************************)
\* the date test of line 255, had it counted the computed date as well
has_date_info_or_computed(row) ==
    HasDate(row.purchase_date) \/ HasDate(row.opened_date)
        \/ HasDate(row.expiration_date) \/ HasDate(row.freshness_expires_at)

\* line 255 negated: the item carries at least one date

has_date_info(row) ==
    HasDate(row.purchase_date) \/ HasDate(row.opened_date)
        \/ HasDate(row.expiration_date)

\* lines 245-251: query the user's items, start with empty lists
CallScanBy(p, users) ==
    /\ CanStart(p)
    /\ \E u \in users, ai \in BOOLEAN :
          frame' = [frame EXCEPT ![p] =
                      [IdleFrame EXCEPT !.op = "scan", !.user = u, !.ai = ai,
                                        !.unexpired = TRUE,
                                        !.rules_before = rules,
                                        !.todo = {i \in ItemIds : items[i].user_id = u}]]
    /\ pc' = [pc EXCEPT ![p] = "loop"]
    /\ ret' = [ret EXCEPT ![p] = NoReturn]
    /\ pre' = [pre EXCEPT ![p] = items]
    /\ UNCHANGED <<today, items, rules, probe, result, feed, issued, meals, nret>>

CallScan(p) == CallScanBy(p, Users)

\* the caller of a scan without estimator that has returned runs the scan
\* of the same user once more, on the day the first run classified
CallScanAgain(p) ==
    /\ pc[p] = "returned"
    /\ frame[p].op = "scan"
    /\ frame[p].caller = "direct"
    /\ ~frame[p].ai
    /\ frame[p].day = today
    /\ frame' = [frame EXCEPT ![p] =
                   [IdleFrame EXCEPT !.op = "scan", !.user = frame[p].user,
                                     !.ai = FALSE, !.unexpired = TRUE,
                                     !.rules_before = rules, !.repeat = TRUE,
                                     !.todo = {i \in ItemIds :
                                                 items[i].user_id = frame[p].user}]]
    /\ pc' = [pc EXCEPT ![p] = "loop"]
    /\ ret' = [ret EXCEPT ![p] = NoReturn]
    /\ pre' = [pre EXCEPT ![p] = items]
    /\ UNCHANGED <<today, items, rules, probe, result, feed, issued, meals, nret>>

\* lines 253-256: the next item carries no date: continue
ScanSkip(p) ==
    /\ pc[p] = "loop"
    /\ \E i \in frame[p].todo :
          /\ ~has_date_info(SessionRow(p, i))
          /\ frame' = [frame EXCEPT ![p] = [@ EXCEPT !.todo = @ \ {i}]]
    /\ UNCHANGED <<today, items, rules, pc, ret, pre, probe, result, feed, issued, meals, nret>>

\* lines 253-258: the next item carries a date: update_item_freshness(db, item, ai=ai)
ScanEnter(p) ==
    /\ pc[p] = "loop"
    /\ \E i \in frame[p].todo :
          /\ has_date_info(SessionRow(p, i))
          /\ frame' = [frame EXCEPT ![p] = [@ EXCEPT !.todo = @ \ {i}, !.item = i]]
    /\ pc' = [pc EXCEPT ![p] = "lookup"]
    /\ UNCHANGED <<today, items, rules, ret, pre, probe, result, feed, issued, meals, nret>>

\* lines 271-276
ScanReturn(p) ==
    /\ pc[p] = "loop"
    /\ frame[p].todo = {}
    /\ frame[p].caller = "direct"
    /\ ret' = [ret EXCEPT ![p] =
                 [op |-> "scan", detail |-> None,
                  items_scanned |-> Len(frame[p].results),
                  items_changed |-> frame[p].changes,
                  alerts |-> frame[p].alerts,
                  details |-> frame[p].results]]
    /\ pc' = [pc EXCEPT ![p] = "returned"]
    /\ UNCHANGED <<today, items, rules, frame, pre, probe, result, feed, issued, meals, nret>>

\* midnight: date.today() moves on
AdvanceDay ==
    /\ today < MaxToday
    /\ today' = today + 1
    /\ UNCHANGED <<items, rules, pc, frame, ret, pre, probe, result, feed, issued, meals, nret>>

(***************************************************************************)
(* The batch freshness check (routers/ai.py, POST /freshness-check)        *)
(***************************************************************************)
\* one entry of the JSON array the estimator returns; a missing key is NoneStr
BatchEntry(status, exp) ==
    [freshness_status |-> status, effective_expiration_date |-> exp]
\* no entry of the array carries the id of the item
NoEntry == BatchEntry("<absent>", NoneStr)

\* kitchen_ai.py check_freshness_batch: an exception of _call_claude, text
\* _extract_json cannot parse, or a parsed array; nothing checks the
\* status strings of the array
check_freshness_batch(ids, day) ==
    {[kind |-> "raise", results |-> [i \in ids |-> NoEntry]],
     [kind |-> "unparseable", results |-> [i \in ids |-> NoEntry]]}
    \cup {[kind |-> "ok", results |-> rs] :
            rs \in [ids -> {NoEntry} \cup
                       {BatchEntry(st, e) :
                           st \in {NoneStr, "use_soon", "spoiled"},
                           e \in {NoneStr, "soon", isoformat(day + 1)}}]}

\* lines 147-158: the entry of a known item with a truthy status is
\* assigned to the item, its date when it parses
batch_assign(row, r) ==
    IF r # NoEntry /\ TruthyStr(r.freshness_status)
    THEN LET exp == r.effective_expiration_date
             parsed == IF TruthyStr(exp) THEN fromisoformat(exp) ELSE None
         IN  [row EXCEPT !.freshness_status = r.freshness_status,
                         !.freshness_expires_at = IF parsed # None THEN parsed ELSE @]
    ELSE row

\* lines 106-163: the whole request; the estimator call blocks the worker,
\* an exception of the call leaves the handler before anything is written
FreshnessCheckBy(p, users) ==
    /\ CanStart(p)
    /\ \E u \in users :
          LET items_with_dates ==
                  {i \in ItemIds : items[i].user_id = u /\ has_date_info(items[i])}
          IN  IF items_with_dates = {}
              THEN /\ items' = items
                   /\ pc' = [pc EXCEPT ![p] = "returned"]
                   /\ ret' = [ret EXCEPT ![p] = [NoReturn EXCEPT !.op = "freshness_check"]]
              ELSE \E reply \in check_freshness_batch(items_with_dates, today) :
                      IF reply.kind # "ok"
                      THEN /\ items' = items
                           /\ pc' = [pc EXCEPT ![p] = "raised"]
                           /\ ret' = [ret EXCEPT ![p] = NoReturn]
                      ELSE LET after == [i \in ItemIds |->
                                           IF i \in items_with_dates
                                           THEN batch_assign(items[i], reply.results[i])
                                           ELSE items[i]]
                               updated == {i \in ItemIds :
                                             after[i].freshness_status
                                                 # items[i].freshness_status}
                           IN  /\ items' = after
                               /\ pc' = [pc EXCEPT ![p] = "returned"]
                               /\ ret' = [ret EXCEPT ![p] =
                                            [NoReturn EXCEPT
                                                !.op = "freshness_check",
                                                !.items_changed = Cardinality(updated)]]
    /\ frame' = [frame EXCEPT ![p] = [IdleFrame EXCEPT !.op = "freshness_check"]]
    /\ pre' = [pre EXCEPT ![p] = NoSnapshot]
    /\ UNCHANGED <<today, rules, probe, result, feed, issued, meals, nret>>

FreshnessCheck(p) == FreshnessCheckBy(p, Users)

(***************************************************************************)
(* Pantry requests on one item (routers/pantry.py)                         *)
(***************************************************************************)
\* lines 198-211, POST /{item_id}/open: the item is stamped opened today
\* and a fresh item becomes use_soon
MarkOpenedBy(p, ids) ==
    /\ CanStart(p)
    /\ \E i \in ids :
          /\ items' = [items EXCEPT ![i] =
                         [@ EXCEPT !.opened_date = Some(today),
                                   !.freshness_status =
                                       IF @ = "fresh" THEN "use_soon" ELSE @]]
          /\ frame' = [frame EXCEPT ![p] =
                         [IdleFrame EXCEPT !.op = "mark_opened", !.item = i]]
    /\ pc' = [pc EXCEPT ![p] = "returned"]
    /\ ret' = [ret EXCEPT ![p] = [NoReturn EXCEPT !.op = "mark_opened"]]
    /\ pre' = [pre EXCEPT ![p] = NoSnapshot]
    /\ UNCHANGED <<today, rules, probe, result, feed, issued, meals, nret>>

\* the fields of PantryItemUpdate (schemas/pantry.py) a client sets, among
\* those the model keeps, with the value it sends for each
PatchFields == {"location", "freshness_status", "freshness_expires_at"}
PatchValue == [location |-> "freezer", freshness_status |-> "expired",
               freshness_expires_at |-> Some(0)]

\* lines 152-168, PATCH /{item_id}: every field the body sets is assigned
UpdateItemBy(p, ids) ==
    /\ CanStart(p)
    /\ \E i \in ids, data \in SUBSET PatchFields :
          /\ items' = [items EXCEPT ![i] =
                         [@ EXCEPT
                            !.location = IF "location" \in data
                                         THEN PatchValue.location ELSE @,
                            !.freshness_status =
                                IF "freshness_status" \in data
                                THEN PatchValue.freshness_status ELSE @,
                            !.freshness_expires_at =
                                IF "freshness_expires_at" \in data
                                THEN PatchValue.freshness_expires_at ELSE @]]
          /\ frame' = [frame EXCEPT ![p] =
                         [IdleFrame EXCEPT !.op = "update_item", !.item = i]]
    /\ pc' = [pc EXCEPT ![p] = "returned"]
    /\ ret' = [ret EXCEPT ![p] = [NoReturn EXCEPT !.op = "update_item"]]
    /\ pre' = [pre EXCEPT ![p] = NoSnapshot]
    /\ UNCHANGED <<today, rules, probe, result, feed, issued, meals, nret>>

(***************************************************************************)
(* The notification store (services/notifications.py)                      *)
(***************************************************************************)
\* line 33: the slice [:50]
feed_cap == 50

\* uuid4() hands out a value no other notification carries: the pair of
\* the feed's owner and the number of the stamp; created_at is the instant
\* of the stamp, the instants of one feed numbered in the order they pass
NoId == <<"", 0>>

\* the dict a generator builds (title and message texts left out); a key
\* the generator does not set is NoneStr
Notification(type, severity, item_id, meal_plan_id, action_type, action_label) ==
    [type |-> type, severity |-> severity, item_id |-> item_id,
     meal_plan_id |-> meal_plan_id, action_type |-> action_type,
     action_label |-> action_label,
     id |-> NoId, created_at |-> 0, read |-> FALSE]

\* the store, had it never cut the list
_add_notification_uncut(fd, uid, n, notif) ==
    <<[notif EXCEPT !.id = <<uid, n>>, !.created_at = n, !.read = FALSE]>> \o fd

\* lines 23-33: stamp the dict, insert it at index 0, keep the first 50
_add_notification(fd, uid, n, notif) ==
    LET added == <<[notif EXCEPT !.id = <<uid, n>>, !.created_at = n,
                                 !.read = FALSE]>> \o fd
    IN  SubSeq(added, 1, Min(Len(added), feed_cap))

\* a generator's loop: one _add_notification per dict, in order
RECURSIVE add_each(_, _, _, _)
add_each(fd, uid, n, notifs) ==
    IF notifs = <<>> THEN [feed |-> fd, issued |-> n]
    ELSE add_each(_add_notification(fd, uid, n + 1, Head(notifs)), uid, n + 1,
                  Tail(notifs))

\* a query without ORDER BY returns its rows in any order
Orderings(S) ==
    {s \in [1..Cardinality(S) -> S] :
        \A a, b \in 1..Cardinality(S) : a # b => s[a] # s[b]}

\* mark_read that answers for the first entry whatever id was asked
mark_read_any(fd, id) ==
    IF fd # <<>>
    THEN [feed |-> [fd EXCEPT ![1].read = TRUE], found |-> TRUE]
    ELSE [feed |-> fd, found |-> FALSE]

\* lines 45-52: the first entry of the list with the id is set read
mark_read(fd, id) ==
    IF \E k \in 1..Len(fd) : fd[k].id = id
    THEN LET k == CHOOSE j \in 1..Len(fd) :
                     /\ fd[j].id = id
                     /\ \A h \in 1..(j - 1) : fd[h].id # id
         IN  [feed |-> [fd EXCEPT ![k].read = TRUE], found |-> TRUE]
    ELSE [feed |-> fd, found |-> FALSE]

\* mark_all_read that counts every entry it visits
mark_all_read_count_all(fd) ==
    [feed |-> [k \in 1..Len(fd) |-> [fd[k] EXCEPT !.read = TRUE]],
     count |-> Len(fd)]

\* lines 55-63: every unread entry is set read and counted
mark_all_read(fd) ==
    [feed |-> [k \in 1..Len(fd) |-> [fd[k] EXCEPT !.read = TRUE]],
     count |-> Cardinality({k \in 1..Len(fd) : ~fd[k].read})]

\* the three dicts of generate_freshness_alerts, lines 86-94, 105-113, 124-132
freshness_alert(status, item_id) ==
    CASE status = "use_today" ->
            Notification("freshness_alert", "high", item_id, NoneStr,
                         "view_recipes", "Find recipes")
      [] status = "use_soon" ->
            Notification("freshness_alert", "medium", item_id, NoneStr,
                         "view_item", "View item")
      [] status = "expired" ->
            Notification("freshness_alert", "critical", item_id, NoneStr,
                         "log_waste", "Log waste")

\* db.query(PantryItem).filter(user_id == u, freshness_status == status)
with_status(u, status) ==
    {i \in ItemIds : items[i].user_id = u /\ items[i].freshness_status = status}

\* the query of the expired items, had it asked for use_today as well
alert_rows_expired_twice(u, o1, o2, o3) ==
    [k \in 1..Len(o1) |-> freshness_alert("use_today", o1[k])]
        \o [k \in 1..Len(o2) |-> freshness_alert("use_soon", o2[k])]
        \o [k \in 1..Len(o3) |-> freshness_alert("expired", o3[k])]
        \o [k \in 1..Len(o1) |-> freshness_alert("expired", o1[k])]

\* lines 79-134: the dicts of the three loops, in the order they are added
alert_rows(u, o1, o2, o3) ==
    [k \in 1..Len(o1) |-> freshness_alert("use_today", o1[k])]
        \o [k \in 1..Len(o2) |-> freshness_alert("use_soon", o2[k])]
        \o [k \in 1..Len(o3) |-> freshness_alert("expired", o3[k])]

(***************************************************************************)
(* Meal plans and recipes (models/meal_plan.py, models/recipe.py)          *)
(***************************************************************************)
MealIds == {"m1", "m2", "m3", "m4"}
RecipeIds == {"r1", "r2"}

Meal(user, plan_date, recipe, completed, sent) ==
    [user_id |-> user, plan_date |-> plan_date, recipe_id |-> recipe,
     completed |-> completed, thaw_reminder_sent |-> sent]

\* the planned meals; m4 is a custom meal without a recipe
MealPlans ==
    [m \in MealIds |->
        CASE m = "m1" -> Meal("u2", 1, "r1", FALSE, FALSE)
          [] m = "m2" -> Meal("u2", 3, "r2", FALSE, FALSE)
          [] m = "m3" -> Meal("u1", 3, "r1", FALSE, FALSE)
          [] m = "m4" -> Meal("u2", 2, NoneStr, FALSE, FALSE)]

\* recipe_ingredients: the canonical names of the rows of a recipe, one
\* of r1 without a canonical name
recipe_ingredients(r) ==
    CASE r = "r1" -> {"shrimp", "milk", NoneStr}
      [] r = "r2" -> {"milk"}

\* the canonical names of the rows of a recipe whose optional column is
\* set (models/recipe.py line 54): the milk of r1 is optional
optional_ingredients(r) ==
    CASE r = "r1" -> {"milk"}
      [] r = "r2" -> {}

\* lines 199-203: the user's items of that canonical name stored in "freezer"
frozen_items(u, canonical) ==
    {i \in ItemIds : /\ items[i].user_id = u
                     /\ items[i].canonical_name = canonical
                     /\ items[i].location = "freezer"}

\* lines 177-183: the user's open meals of tomorrow and the day after
\* that have a recipe and no reminder yet
upcoming_meals(u) ==
    {m \in MealIds : /\ meals[m].user_id = u
                     /\ meals[m].plan_date \in (today + 1)..(today + 2)
                     /\ ~meals[m].completed
                     /\ meals[m].recipe_id # NoneStr
                     /\ ~meals[m].thaw_reminder_sent}

\* lines 206-218
thaw_reminder(item_id, m) ==
    Notification("thaw_reminder", "medium", item_id, m, "view_meal", "View meal")

\* lines 196-220: one dict per ingredient that has a canonical name and a
\* frozen item, ingredients in the order the query returned them, the
\* frozen item the one .first() returned
RECURSIVE meal_rows(_, _, _, _)
meal_rows(u, m, ings, first) ==
    IF ings = <<>> THEN <<>>
    ELSE (IF TruthyStr(Head(ings)) /\ frozen_items(u, Head(ings)) # {}
          THEN <<thaw_reminder(first[Head(ings)], m)>> ELSE <<>>)
         \o meal_rows(u, m, Tail(ings), first)

\* lines 185-220: the dicts of all meals of the loop
RECURSIVE thaw_rows(_, _, _, _)
thaw_rows(u, ms, order, first) ==
    IF ms = <<>> THEN <<>>
    ELSE meal_rows(u, Head(ms), order[meals[Head(ms)].recipe_id], first)
         \o thaw_rows(u, Tail(ms), order, first)

\* a loop that leaves the flag of its meals alone
mark_sent_never(tbl, done) == tbl

\* line 223 and the commit of line 225
mark_sent(tbl, done) ==
    [m \in MealIds |->
        IF m \in done THEN [tbl[m] EXCEPT !.thaw_reminder_sent = TRUE] ELSE tbl[m]]

(***************************************************************************)
(* Calls on the notification store                                         *)
(***************************************************************************)
Overflow == 2          \* alerts are generated until feed_cap + Overflow stamps of u1
MaxIssuedOther == 1    \* and until MaxIssuedOther stamps of every other user
MaxMarkId == 1         \* clients ask for the first MaxMarkId ids of a feed

IssueBound(u) == IF u = "u1" THEN feed_cap + Overflow ELSE MaxIssuedOther
MarkIds == {<<u, n>> : u \in Users, n \in 1..MaxMarkId} \cup {NoId}

NoCall == [op |-> "none", user |-> NoneStr, id |-> NoId, found |-> FALSE, count |-> 0]

engine_vars == <<items, rules, pc, frame, ret, pre, probe, result>>

\* lines 71-136, called while the store has stamped fewer than bound
\* notifications of the user
GenerateFreshnessAlertsWithin(u, bound) ==
    /\ issued[u] < bound
    /\ \E o1 \in Orderings(with_status(u, "use_today")),
          o2 \in Orderings(with_status(u, "use_soon")),
          o3 \in Orderings(with_status(u, "expired")) :
          LET alerts == alert_rows(u, o1, o2, o3)
              r == add_each(feed[u], u, issued[u], alerts)
          IN  /\ feed' = [feed EXCEPT ![u] = r.feed]
              /\ issued' = [issued EXCEPT ![u] = r.issued]
              /\ nret' = [NoCall EXCEPT !.op = "generate_freshness_alerts",
                                        !.user = u, !.count = Len(alerts)]
    /\ UNCHANGED <<today, meals>>
    /\ UNCHANGED engine_vars

GenerateFreshnessAlerts(u) == GenerateFreshnessAlertsWithin(u, IssueBound(u))

\* .first() of a query: one of the rows it matches, None when there is none
first_or_none(S) == IF S = {} THEN {NoneStr} ELSE S

\* lines 191-194: the ingredient rows of a recipe the loop reaches, in any
\* order; a recipe of no upcoming meal is not queried
ingredient_orders(u, r) ==
    IF \E m \in upcoming_meals(u) : meals[m].recipe_id = r
    THEN Orderings(recipe_ingredients(r)) ELSE {<<>>}

\* lines 166-226
GenerateThawReminders(u) ==
    /\ \E ms \in Orderings(upcoming_meals(u)),
          o1 \in ingredient_orders(u, "r1"),
          o2 \in ingredient_orders(u, "r2"),
          f1 \in first_or_none(frozen_items(u, "shrimp")),
          f2 \in first_or_none(frozen_items(u, "milk")) :
          LET order == [r \in RecipeIds |-> IF r = "r1" THEN o1 ELSE o2]
              first == [c \in {"shrimp", "milk"} |-> IF c = "shrimp" THEN f1 ELSE f2]
              alerts == thaw_rows(u, ms, order, first)
              r == add_each(feed[u], u, issued[u], alerts)
          IN  /\ feed' = [feed EXCEPT ![u] = r.feed]
              /\ issued' = [issued EXCEPT ![u] = r.issued]
              /\ meals' = mark_sent(meals, upcoming_meals(u))
              /\ nret' = [NoCall EXCEPT !.op = "generate_thaw_reminders",
                                        !.user = u, !.count = Len(alerts)]
    /\ UNCHANGED today
    /\ UNCHANGED engine_vars

\* routers/ai.py lines 456-464: mark_read, answered with 404 when not found
MarkRead(u) ==
    /\ \E id \in MarkIds :
          LET r == mark_read(feed[u], id)
          IN  /\ feed' = [feed EXCEPT ![u] = r.feed]
              /\ nret' = [NoCall EXCEPT !.op = "mark_read", !.user = u,
                                        !.id = id, !.found = r.found]
    /\ UNCHANGED <<today, issued, meals>>
    /\ UNCHANGED engine_vars

\* routers/ai.py lines 467-472
MarkAllRead(u) ==
    /\ LET r == mark_all_read(feed[u])
       IN  /\ feed' = [feed EXCEPT ![u] = r.feed]
           /\ nret' = [NoCall EXCEPT !.op = "mark_all_read", !.user = u,
                                     !.count = r.count]
    /\ UNCHANGED <<today, issued, meals>>
    /\ UNCHANGED engine_vars

(***************************************************************************)
(* The on-demand scan (routers/ai.py, POST /freshness-scan)                *)
(***************************************************************************)
MaxRouteIssued == 2    \* requests are served while a feed has fewer stamps

\* the items whose row has is_staple set and quantity <= min_quantity; no
\* operation of the model writes these columns
LowStock == {"i3"}
low_items(u) == {i \in ItemIds : items[i].user_id = u /\ i \in LowStock}

\* notifications.py lines 151-159
low_stock_alert(item_id) ==
    Notification("low_stock", "medium", item_id, NoneStr, "add_to_grocery",
                 "Add to grocery list")

\* lines 422-428: the estimator is passed when the body sets force_ai;
\* run_freshness_scan starts, called without force_ai
FreshnessScanRequestBy(p, users) ==
    /\ CanStart(p)
    /\ \E u \in users, force_ai \in BOOLEAN :
          /\ issued[u] < MaxRouteIssued
          /\ frame' = [frame EXCEPT ![p] =
                         [IdleFrame EXCEPT !.op = "scan", !.user = u,
                                           !.caller = "route",
                                           !.body_force_ai = force_ai,
                                           !.ai = force_ai,
                                           !.unexpired = TRUE,
                                           !.rules_before = rules,
                                           !.todo = {i \in ItemIds : items[i].user_id = u}]]
    /\ pc' = [pc EXCEPT ![p] = "loop"]
    /\ ret' = [ret EXCEPT ![p] = NoReturn]
    /\ pre' = [pre EXCEPT ![p] = items]
    /\ UNCHANGED <<today, items, rules, probe, result, feed, issued, meals, nret>>

FreshnessScanRequest(p) == FreshnessScanRequestBy(p, Users)

\* freshness.py lines 271-276 and routers/ai.py lines 430-442: the scan
\* returns its summary, the three generators add their notifications, the
\* handler answers
FreshnessScanRespond(p) ==
    /\ pc[p] = "loop"
    /\ frame[p].todo = {}
    /\ frame[p].caller = "route"
    /\ LET u == frame[p].user
       IN  \E o1 \in Orderings(with_status(u, "use_today")),
              o2 \in Orderings(with_status(u, "use_soon")),
              o3 \in Orderings(with_status(u, "expired")),
              lo \in Orderings(low_items(u)),
              ms \in Orderings(upcoming_meals(u)),
              i1 \in ingredient_orders(u, "r1"),
              i2 \in ingredient_orders(u, "r2"),
              f1 \in first_or_none(frozen_items(u, "shrimp")),
              f2 \in first_or_none(frozen_items(u, "milk")) :
              LET order == [r \in RecipeIds |-> IF r = "r1" THEN i1 ELSE i2]
                  first == [c \in {"shrimp", "milk"} |-> IF c = "shrimp" THEN f1 ELSE f2]
                  freshness_alerts == alert_rows(u, o1, o2, o3)
                  low_stock_alerts == [k \in 1..Len(lo) |-> low_stock_alert(lo[k])]
                  thaw_reminders == thaw_rows(u, ms, order, first)
                  r == add_each(feed[u], u, issued[u],
                                freshness_alerts \o low_stock_alerts \o thaw_reminders)
              IN  /\ feed' = [feed EXCEPT ![u] = r.feed]
                  /\ issued' = [issued EXCEPT ![u] = r.issued]
                  /\ meals' = mark_sent(meals, upcoming_meals(u))
                  /\ nret' = [NoCall EXCEPT !.op = "freshness_scan", !.user = u,
                                            !.count = Len(freshness_alerts)
                                                + Len(low_stock_alerts)
                                                + Len(thaw_reminders)]
    /\ ret' = [ret EXCEPT ![p] =
                 [op |-> "scan", detail |-> None,
                  items_scanned |-> Len(frame[p].results),
                  items_changed |-> frame[p].changes,
                  alerts |-> frame[p].alerts,
                  details |-> frame[p].results]]
    /\ pc' = [pc EXCEPT ![p] = "returned"]
    /\ UNCHANGED <<today, items, rules, frame, pre, probe, result>>

(***************************************************************************)
(* Specifications                                                          *)
(***************************************************************************)
NoProbe == [item |-> Inventory(<<"fresh", None>>)["i3"], rule |-> None, today |-> 0]
NoResult == [status |-> NoneStr, effective_exp |-> None]

\* an empty store (line 20) and the planned meals
InitNotifications ==
    /\ feed = [u \in Users |-> <<>>]
    /\ issued = [u \in Users |-> 0]
    /\ meals = MealPlans
    /\ nret = NoCall

InitStores ==
    /\ today = 0
    /\ \E u \in UndatedStates : items = Inventory(u)
    /\ rules \in {<<>>, <<SeedRule>>}
    /\ pc = [p \in Procs |-> "idle"]
    /\ frame = [p \in Procs |-> IdleFrame]
    /\ ret = [p \in Procs |-> NoReturn]
    /\ pre = [p \in Procs |-> NoSnapshot]
    /\ probe = NoProbe
    /\ result = NoResult
    /\ InitNotifications

Step(p) ==
    \/ CallUpdate(p)
    \/ Lookup(p)
    \/ Classify(p)
    \/ CallScan(p)
    \/ ScanSkip(p)
    \/ ScanEnter(p)
    \/ ScanReturn(p)

\* one worker process serving calls one after the other
Init == InitStores
Next == Step("w1") \/ AdvanceDay
Spec == Init /\ [][Next]_vars

\* the notification store over a pantry whose items were classified
\* earlier and whose freezer holds the two items of u2
FeedInventory ==
    [Inventory(<<"expired", Some(0)>>) EXCEPT
        !["i1"].freshness_status = "use_today",
        !["i2"].freshness_status = "use_soon",
        !["i4"].location = "freezer",
        !["i5"].location = "freezer",
        !["i5"].freshness_status = "expired"]

InitFeed ==
    /\ today = 0
    /\ items = FeedInventory
    /\ rules = <<>>
    /\ pc = [p \in Procs |-> "idle"]
    /\ frame = [p \in Procs |-> IdleFrame]
    /\ ret = [p \in Procs |-> NoReturn]
    /\ pre = [p \in Procs |-> NoSnapshot]
    /\ probe = NoProbe
    /\ result = NoResult
    /\ InitNotifications

NextFeed ==
    \E u \in Users :
        \/ GenerateFreshnessAlerts(u)
        \/ GenerateThawReminders(u)
        \/ MarkAllRead(u)
SpecFeed == InitFeed /\ [][NextFeed]_vars

\* the read flags of short feeds: every user's alerts stop after
\* MaxIssuedOther stamps
NextMarks ==
    \E u \in Users :
        \/ GenerateFreshnessAlertsWithin(u, MaxIssuedOther)
        \/ GenerateThawReminders(u)
        \/ MarkRead(u)
        \/ MarkAllRead(u)
SpecMarks == InitFeed /\ [][NextMarks]_vars

\* the thaw reminders of the planned meals as the days pass
NextThaw ==
    \/ \E u \in Users : GenerateThawReminders(u) \/ MarkAllRead(u)
    \/ AdvanceDay
SpecThaw == InitFeed /\ [][NextThaw]_vars

\* one worker serving the classifications, scans and batch checks of one
\* user on one day
BatchUsers == {"u1"}
BatchStep(p) ==
    \/ CallUpdateOn(p, {i \in ItemIds : Inventory(<<"fresh", None>>)[i].user_id \in BatchUsers})
    \/ Lookup(p)
    \/ Classify(p)
    \/ CallScanBy(p, BatchUsers)
    \/ ScanSkip(p)
    \/ ScanEnter(p)
    \/ ScanReturn(p)
    \/ FreshnessCheckBy(p, BatchUsers)
NextBatch == BatchStep("w1")
SpecBatch == Init /\ [][NextBatch]_vars

\* one worker serving scans, each within one day: midnight passes between
\* two requests
RescanStep(p) ==
    \/ CallScanBy(p, Users)
    \/ CallScanAgain(p)
    \/ ScanSkip(p)
    \/ ScanEnter(p)
    \/ Lookup(p)
    \/ Classify(p)
    \/ ScanReturn(p)
NextRescan == RescanStep("w1") \/ (CanStart("w1") /\ AdvanceDay)
SpecRescan == Init /\ [][NextRescan]_vars

\* one worker serving on-demand scan requests as the days pass
RouteStep(p) ==
    \/ FreshnessScanRequest(p)
    \/ ScanSkip(p)
    \/ ScanEnter(p)
    \/ Lookup(p)
    \/ Classify(p)
    \/ FreshnessScanRespond(p)
NextRoute == RouteStep("w1") \/ AdvanceDay
SpecRoute == Init /\ [][NextRoute]_vars

\* one worker serving the pantry requests and the classifications of
\* one item on one day
PantryItems == {"i1"}
PantryStep(p) ==
    \/ MarkOpenedBy(p, PantryItems)
    \/ UpdateItemBy(p, PantryItems)
    \/ CallUpdateOn(p, PantryItems)
    \/ Lookup(p)
    \/ Classify(p)
NextPantry == PantryStep("w1")
SpecPantry == Init /\ [][NextPantry]_vars

\* two worker processes classifying single items against the same database
UpdateStep(p) ==
    \/ CallUpdateShared(p)
    \/ Lookup(p)
    \/ Classify(p)
NextConc == \E p \in Procs : UpdateStep(p)
SpecConc == Init /\ [][NextConc]_vars

(***************************************************************************)
(* calculate_freshness_rule_based on its own: the inputs are drawn in the  *)
(* initial state, the one action applies the function                      *)
(***************************************************************************)
ProbeCategories == CategoryNames \cup {NoneStr, "other", "Dairy"}
ProbeLocations == {NoneStr, "pantry", "freezer", "Freezer"}
OptDays == {None} \cup {Some(n) : n \in 0..MaxRuleDays}
\* frozen_shelf_life_days (models/waste.py) is left NULL or set
ProbeFrozenDays == {None, Some(MaxRuleDays)}
ProbeRules ==
    {Some([RuleRow("shrimp", "seafood", sd, od, "fridge", NoneStr, "curated")
              EXCEPT !.frozen_shelf_life_days = fz]) :
        sd \in OptDays, od \in OptDays, fz \in ProbeFrozenDays}

ProbeItem(category, location, purchase, opened, printed) ==
    Row("u1", "Probe", "shrimp", category, location, purchase, opened, printed,
        "fresh", None)

\* the dates the classification of the item can be built from
Anchors(category, rule, purchase, opened) ==
    LET d == category_default(category)
        sealed == IF rule = None THEN {d[1]}
                  ELSE IF rule[1].sealed_shelf_life_days = None THEN {}
                  ELSE {rule[1].sealed_shelf_life_days[1]}
        opnd   == IF rule = None THEN {d[2]}
                  ELSE IF rule[1].opened_shelf_life_days = None THEN {}
                  ELSE {rule[1].opened_shelf_life_days[1]}
    IN  (IF purchase = None THEN {}
         ELSE {purchase[1] + n : n \in sealed} \cup {purchase[1] + frozen_days})
        \cup (IF opened = None THEN {} ELSE {opened[1] + n : n \in opnd})
        \cup {0}

InitProbe ==
    /\ today = 0
    /\ items = Inventory(<<"fresh", None>>)
    /\ rules = <<>>
    /\ pc = [p \in Procs |-> "idle"]
    /\ frame = [p \in Procs |-> IdleFrame]
    /\ ret = [p \in Procs |-> NoReturn]
    /\ pre = [p \in Procs |-> NoSnapshot]
    /\ result = NoResult
    /\ InitNotifications
    /\ \E purchase \in {None, Some(0)},
          opened \in {None} \cup {Some(d) : d \in 0..MaxOpened},
          location \in ProbeLocations,
          cr \in ({None} \X ProbeCategories) \cup (ProbeRules \X {"dairy"}) :
          LET anchors == Anchors(cr[2], cr[1], purchase, opened)
          IN  \E printed \in {None} \cup
                    {Some(a + e) : a \in anchors, e \in (0 - ExpWindow)..ExpWindow} :
                \E day \in {a - w : a \in anchors
                                        \cup (IF printed = None THEN {} ELSE {printed[1]}),
                                    w \in (0 - 1)..Window} :
                    probe = [item |-> ProbeItem(cr[2], location, purchase, opened, printed),
                             rule |-> cr[1], today |-> day]

ClassifyProbe ==
    /\ result = NoResult
    /\ result' = calculate_freshness_rule_based(probe.item, probe.rule, probe.today)
    /\ UNCHANGED <<today, items, rules, pc, frame, ret, pre, probe,
                   feed, issued, meals, nret>>

SpecClassify == InitProbe /\ [][ClassifyProbe]_vars

(***************************************************************************)
(* The try block after the estimator's answer (lines 160-170), with the    *)
(* commit and the summary that follow it, on its own: the item, the rule   *)
(* the lookup found, the rule table as the flush finds it and the parsed   *)
(* answer are drawn in the initial state, the one action applies the block *)
(***************************************************************************)
MaxEstimateDay == 1

\* a row another process cached for the name after the lookup of this one
ConcurrentRule == RuleRow("shrimp", "produce", Some(1), None, "pantry", NoneStr, "AI estimate")

\* the items the block is applied to: any dates, and the status and the
\* effective expiration an earlier run left
EstimateItems ==
    {Row("u1", "Shrimp", "shrimp", "seafood", "fridge", purchase, opened, printed,
         left[1], left[2]) :
        purchase \in {None, Some(0)}, opened \in {None, Some(0)},
        printed \in {None, Some(1)},
        left \in {<<"fresh", None>>, <<"use_today", Some(0)>>}}

InitEstimate ==
    /\ today = 0
    /\ items = Inventory(<<"fresh", None>>)
    /\ rules = <<>>
    /\ pc = [p \in Procs |-> "idle"]
    /\ frame = [p \in Procs |-> IdleFrame]
    /\ ret = [p \in Procs |-> NoReturn]
    /\ pre = [p \in Procs |-> NoSnapshot]
    /\ result = NoResult
    /\ InitNotifications
    /\ \E row \in EstimateItems, day \in 0..MaxEstimateDay,
          found \in {<<None, <<>>, FALSE>>, <<None, <<>>, TRUE>>,
                     <<None, <<ConcurrentRule>>, FALSE>>,
                     <<None, <<ConcurrentRule>>, TRUE>>,
                     <<Some(SeedRule), <<SeedRule>>, TRUE>>} :
          \E reply \in {r \in AiReplies(day) : r.kind = "ok"} :
              probe = [item |-> row, rule |-> found[1], today |-> day,
                       tbl |-> found[2], force_ai |-> found[3], reply |-> reply]

\* lines 160-170, 183 and 185-192
EstimateProbe ==
    /\ result = NoResult
    /\ LET row == probe.item
           out == ai_answered(row, probe.rule, canonical_of(row), probe.reply, probe.tbl)
           after == committed_row(row, row, out)
       IN  result' = [status |-> after.freshness_status,
                      effective_exp |-> after.freshness_expires_at,
                      rules |-> IF out.rolled_back THEN probe.tbl ELSE out.rules,
                      rolled_back |-> out.rolled_back,
                      summary |-> result_dict("probe", row.freshness_status, after)]
    /\ UNCHANGED <<today, items, rules, pc, frame, ret, pre, probe,
                   feed, issued, meals, nret>>

SpecEstimate == InitEstimate /\ [][EstimateProbe]_vars

(***************************************************************************)
(* Properties of calculate_freshness_rule_based (under SpecClassify)       *)
(***************************************************************************)
Classifieds == result # NoResult
InFreezer(item) == TruthyStr(item.location) /\ lower(item.location) = "freezer"
OnlyPurchased(item) ==
    /\ HasDate(item.purchase_date)
    /\ ~HasDate(item.opened_date)
    /\ ~HasDate(item.expiration_date)
    /\ ~InFreezer(item)
\* the sealed shelf life the knowledge base holds for the probe, if any
KnownSealedDays ==
    IF probe.rule = None THEN Some(category_default(probe.item.category)[1])
    ELSE probe.rule[1].sealed_shelf_life_days
\* the status the thresholds give on day purchase_date + k for a life of n days
ThresholdStatus(k, n) ==
    IF k >= n THEN "expired"
    ELSE IF k = n - 1 THEN "use_today"
    ELSE IF k >= n - 4 THEN "use_soon"
    ELSE "fresh"
ExpectedOfSealed(n) ==
    [status |-> ThresholdStatus(probe.today - probe.item.purchase_date[1], n),
     effective_exp |-> Some(probe.item.purchase_date[1] + n)]

\* C1: an item with only a purchase date and a known sealed shelf life of
\* N days (from a rule or from the category default) is classified with
\* effective expiration purchase_date + N and the status the thresholds
\* give for k = today - purchase_date.
C1_SealedThresholds ==
    (Classifieds /\ OnlyPurchased(probe.item) /\ KnownSealedDays # None)
        => result = ExpectedOfSealed(KnownSealedDays[1])

\* C2: with a printed expiration date E the effective expiration is
\* never later than E, the freezer included.
C2_PrintedCeiling ==
    (Classifieds /\ HasDate(probe.item.expiration_date))
        => /\ result.effective_exp # None
           /\ result.effective_exp[1] <= probe.item.expiration_date[1]

PantryTwin == [probe.item EXCEPT !.location = "pantry"]
PantryResult == calculate_freshness_rule_based(PantryTwin, probe.rule, probe.today)
\* date a is not earlier than date b (both optional)
NotEarlier(a, b) == b = None \/ (a # None /\ a[1] >= b[1])

\* C3: an item in the freezer never gets an earlier effective expiration
\* than the same item in the pantry.
C3_FreezerMonotonic ==
    (Classifieds /\ InFreezer(probe.item))
        => NotEarlier(result.effective_exp, PantryResult.effective_exp)

\* C3 witness: a freezer item whose effective expiration the freezer extended
C3_Witness ==
    /\ Classifieds
    /\ InFreezer(probe.item)
    /\ result.effective_exp # None
    /\ PantryResult.effective_exp # None
    /\ result.effective_exp[1] > PantryResult.effective_exp[1]

\* the opened shelf life the knowledge base holds for the probe, if any
KnownOpenedDays ==
    IF probe.rule = None THEN Some(category_default(probe.item.category)[2])
    ELSE probe.rule[1].opened_shelf_life_days
\* the candidate in the order of C18, a shelf life being known when the
\* rule or the category default holds a number for it
CandidateInOrder ==
    IF HasDate(probe.item.opened_date) /\ KnownOpenedDays # None
    THEN Some(probe.item.opened_date[1] + KnownOpenedDays[1])
    ELSE IF HasDate(probe.item.purchase_date) /\ KnownSealedDays # None
    THEN Some(probe.item.purchase_date[1] + KnownSealedDays[1])
    ELSE probe.item.expiration_date
\* what the classification makes of a candidate: the printed ceiling, and
\* without a rule the freezer extension
FromCandidate(c) ==
    LET capped == printed_ceiling(probe.item, c)
    IN  Classified(IF probe.rule = None THEN freezer_extension(probe.item, capped)
                   ELSE capped, probe.today)

\* C18: the candidate is opened_date + opened_days when the item has an
\* opened date and an opened shelf life is known, otherwise purchase_date +
\* sealed_days when both are known, otherwise the printed date, otherwise
\* the item is fresh with no effective expiration; a shelf life is known
\* when the rule or the category default supplies a number of days
C18_CandidateOrder ==
    Classifieds
        => result = IF CandidateInOrder = None THEN FreshNoDate
                    ELSE FromCandidate(CandidateInOrder[1])

\* the shelf life C19 gives a frozen item
FrozenShelfLife ==
    IF probe.rule # None /\ probe.rule[1].frozen_shelf_life_days # None
    THEN probe.rule[1].frozen_shelf_life_days[1]
    ELSE frozen_days

\* C19: an item in the freezer with a purchase date and no printed date
\* gets an effective expiration of at least purchase_date + F, F the
\* rule's frozen_shelf_life_days when it has one and 180 otherwise, with
\* an exact rule as with category defaults
C19_FreezerFloor ==
    (/\ Classifieds
     /\ InFreezer(probe.item)
     /\ HasDate(probe.item.purchase_date)
     /\ ~HasDate(probe.item.expiration_date))
        => /\ result.effective_exp # None
           /\ result.effective_exp[1] >= probe.item.purchase_date[1] + FrozenShelfLife

(***************************************************************************)
(* Properties of update_item_freshness and run_freshness_scan              *)
(***************************************************************************)
Returned(p, op) == pc[p] = "returned" /\ frame[p].op = op
EstimatorFailures == {"TypeError", "raise", "unparseable"}
IsoOrNone(d) == IF d = None THEN NoneStr ELSE isoformat(d[1])
RuleCount(c) == Cardinality({k \in 1..Len(rules) : rules[k].canonical_name = c})
Undated(row) ==
    row.purchase_date = None /\ row.opened_date = None /\ row.expiration_date = None
EntriesFor(entries, i) == {k \in 1..Len(entries) : entries[k].item_id = i}

\* C4: when the estimator call fails, update_item_freshness returns a
\* result whose status and effective expiration are the category-default
\* classification of the item (no rule used), persisted on the item, with
\* changed telling whether the status differs from the old one.
C4_FallbackOnFailure ==
    \A p \in Procs :
        (Returned(p, "update") /\ frame[p].estimator \in EstimatorFailures)
            => LET f   == frame[p]
                   d   == calculate_freshness_rule_based(f.row[1], None, f.day)
                   now == items[f.item]
               IN  /\ ret[p].detail # None
                   /\ ret[p].detail[1].new_status = d.status
                   /\ ret[p].detail[1].effective_expiration = IsoOrNone(d.effective_exp)
                   /\ ret[p].detail[1].changed = (f.old_status # d.status)
                   /\ now.freshness_status = d.status
                   /\ now.freshness_expires_at = d.effective_exp

\* C4 witness: a forced call on an item that has a rule, whose estimator
\* call failed and whose status changed
C4_Witness ==
    \E p \in Procs :
        /\ Returned(p, "update")
        /\ frame[p].estimator \in EstimatorFailures
        /\ frame[p].rule # None
        /\ ret[p].detail # None
        /\ ret[p].detail[1].changed

\* C5: after two different items with the same canonical name were
\* classified one after the other with an estimator supplied, the rule
\* table holds exactly one row for that name.
C5_OneRuleAfterTwoItems ==
    \A p \in Procs :
        (/\ Returned(p, "scan")
         /\ frame[p].ai
         /\ \A i \in SharedNameItems : EntriesFor(ret[p].details, i) # {})
            => RuleCount("shrimp") = 1

\* C6: after two processes classified items of one canonical name at the
\* same time, both with an estimator and both finding no rule, the rule
\* table holds exactly one row for that name.
C6_OneRuleAfterRace ==
    (/\ \A p \in Procs :
           /\ Returned(p, "update")
           /\ frame[p].ai
           /\ frame[p].rule = None
           /\ frame[p].canonical = "shrimp"
     /\ \E p \in Procs : frame[p].raced)
        => RuleCount("shrimp") = 1

\* C7: no step changes or removes a rule row that exists, or adds a
\* second row for its canonical name.
C7_FirstWriteWins ==
    [][\A k \in 1..Len(rules) :
          /\ Len(rules') >= k
          /\ rules'[k] = rules[k]
          /\ \A j \in (Len(rules) + 1)..Len(rules') :
                rules'[j].canonical_name # rules[k].canonical_name]_vars

\* C7 witness: a forced classification, with an estimator, of an item
\* whose canonical name has a rule has returned, the rule still there
C7_Witness ==
    \E p \in Procs :
        /\ Returned(p, "update")
        /\ frame[p].ai /\ frame[p].force_ai
        /\ frame[p].rule = Some(SeedRule)
        /\ rules = <<SeedRule>>

\* the items of the scan of p whose status the scan changed to s
ChangedTo(p, s) ==
    {i \in ItemIds :
        /\ pre[p][i].user_id = frame[p].user
        /\ ~Undated(pre[p][i])
        /\ pre[p][i].freshness_status # items[i].freshness_status
        /\ items[i].freshness_status = s}

\* C8: the alerts of a scan hold exactly one entry for each scanned item
\* whose status changed to use_today or expired, and none for any other.
C8_AlertsExact ==
    \A p \in Procs :
        Returned(p, "scan")
            => \A i \in ItemIds :
                  LET es == EntriesFor(ret[p].alerts, i)
                  IN  IF i \in ChangedTo(p, "use_today") \cup ChangedTo(p, "expired")
                      THEN /\ Cardinality(es) = 1
                           /\ \A k \in es :
                                 /\ ret[p].alerts[k].status = items[i].freshness_status
                                 /\ ret[p].alerts[k].old_status = pre[p][i].freshness_status
                      ELSE es = {}

\* C8 witness: a scan that alerted for one item and changed another to use_soon
C8_Witness ==
    \E p \in Procs :
        /\ Returned(p, "scan")
        /\ ret[p].alerts # <<>>
        /\ ChangedTo(p, "use_soon") # {}

\* C9: details holds one entry per dated item of the user, with the status
\* before the scan, the status after, the effective expiration and
\* changed = (before # after); items_scanned and items_changed count the
\* entries and the changed entries.
C9_DetailsExact ==
    \A p \in Procs :
        Returned(p, "scan")
            => LET ds == ret[p].details
               IN  /\ \A i \in ItemIds :
                         Cardinality(EntriesFor(ds, i)) =
                            IF pre[p][i].user_id = frame[p].user /\ ~Undated(pre[p][i])
                            THEN 1 ELSE 0
                   /\ \A k \in 1..Len(ds) :
                         LET i == ds[k].item_id
                         IN  /\ ds[k].old_status = pre[p][i].freshness_status
                             /\ ds[k].new_status = items[i].freshness_status
                             /\ ds[k].effective_expiration =
                                    IsoOrNone(items[i].freshness_expires_at)
                             /\ ds[k].changed = (ds[k].old_status # ds[k].new_status)
                   /\ ret[p].items_scanned = Len(ds)
                   /\ ret[p].items_changed =
                         Cardinality({k \in 1..Len(ds) : ds[k].changed})

\* C9 witness: a scan with a changed and an unchanged item in its details
C9_Witness ==
    \E p \in Procs :
        /\ Returned(p, "scan")
        /\ \E k, j \in 1..Len(ret[p].details) :
              ret[p].details[k].changed /\ ~ret[p].details[j].changed

\* C10: a scan leaves the status and the effective expiration of every item
\* without any date as they were, and lists it in neither details nor alerts.
C10_UndatedSkipped ==
    \A p \in Procs :
        Returned(p, "scan")
            => \A i \in ItemIds :
                  (pre[p][i].user_id = frame[p].user /\ Undated(pre[p][i]))
                      => /\ items[i].freshness_status = pre[p][i].freshness_status
                         /\ items[i].freshness_expires_at = pre[p][i].freshness_expires_at
                         /\ EntriesFor(ret[p].details, i) = {}
                         /\ EntriesFor(ret[p].alerts, i) = {}

\* C10 witness: a scan that skipped an undated item holding an old status
\* and an old computed date, and classified another item
C10_Witness ==
    \E p \in Procs :
        /\ Returned(p, "scan")
        /\ ret[p].details # <<>>
        /\ \E i \in ItemIds :
              /\ pre[p][i].user_id = frame[p].user
              /\ Undated(pre[p][i])
              /\ items[i].freshness_status = "use_today"
              /\ items[i].freshness_expires_at # None

\* C11: whichever items' estimator calls fail during a scan, no exception
\* leaves the scan: it returns its summary, and details holds exactly one
\* entry for every dated item of the user, the items processed after a
\* failing one included
C11_ScanSurvivesFailures ==
    \A p \in Procs :
        /\ pc[p] # "raised"
        /\ Returned(p, "scan")
              => \A i \in ItemIds :
                    (pre[p][i].user_id = frame[p].user /\ has_date_info(pre[p][i]))
                        => Cardinality(EntriesFor(ret[p].details, i)) = 1

\* C11 witness: a returned scan in which the estimator call of one item
\* failed and an item without a failure was classified after it
C11_Witness ==
    \E p \in Procs :
        /\ Returned(p, "scan")
        /\ LET ds == ret[p].details
           IN  \E k \in 1..Len(ds), j \in 1..Len(ds) :
                  /\ k < j
                  /\ ds[k].item_id \in frame[p].failed
                  /\ ds[j].item_id \notin frame[p].failed

(***************************************************************************)
(* Claims about the notification store: SpecFeed, SpecMarks and SpecThaw   *)
(***************************************************************************)
Indexes(fd, id) == {k \in 1..Len(fd) : fd[k].id = id}
Unread(fd) == {k \in 1..Len(fd) : ~fd[k].read}
AllRead(fd) == [k \in 1..Len(fd) |-> [fd[k] EXCEPT !.read = TRUE]]
AlertStatuses == {"use_today", "use_soon", "expired"}

\* C12: each feed holds at most 50 entries, newest first: it is the run of
\* the most recently stamped notifications; adding to a feed of 50 drops the
\* oldest entry and keeps the 49 most recent ones behind the new one
C12_FeedCapped ==
    \A u \in Users :
        LET fd == feed[u]
            nf == _add_notification(fd, u, issued[u] + 1, freshness_alert("expired", "i1"))
        IN  /\ Len(fd) <= feed_cap
            /\ Len(fd) = Min(issued[u], feed_cap)
            /\ \A k \in 1..Len(fd) : fd[k].created_at = issued[u] - k + 1
            /\ Len(fd) = feed_cap
                  => /\ Len(nf) = feed_cap
                     /\ nf[1].id = <<u, issued[u] + 1>>
                     /\ SubSeq(nf, 2, feed_cap) = SubSeq(fd, 1, feed_cap - 1)

\* C12 witness: a full feed that has already dropped an entry
C12_Witness ==
    \E u \in Users :
        /\ Len(feed[u]) = feed_cap
        /\ issued[u] > feed_cap
        /\ feed[u][feed_cap].created_at > 1

\* C13: mark_read(user, id) sets read on the one entry of that user's feed
\* with the id and reports success; when the user's feed has no such entry,
\* also when the id is in another user's feed, it reports not-found and no
\* feed changes
C13_MarkReadOwnFeedOnly ==
    [][nret'.op = "mark_read"
         => LET u == nret'.user
                hits == Indexes(feed[u], nret'.id)
            IN  IF hits # {}
                THEN /\ nret'.found
                     /\ Cardinality(hits) = 1
                     /\ feed' = [feed EXCEPT ![u] =
                                    [k \in 1..Len(feed[u]) |->
                                        IF k \in hits
                                        THEN [feed[u][k] EXCEPT !.read = TRUE]
                                        ELSE feed[u][k]]]
                ELSE /\ ~nret'.found
                     /\ feed' = feed]_vars

\* C13 witness: a not-found answer for an id that is in the other user's
\* feed, unread, after a successful mark_read on the caller's own feed
C13_Witness ==
    /\ nret.op = "mark_read"
    /\ ~nret.found
    /\ nret.id # NoId
    /\ nret.id[1] # nret.user
    /\ \E k \in Indexes(feed[nret.id[1]], nret.id) : ~feed[nret.id[1]][k].read
    /\ \E k \in 1..Len(feed[nret.user]) :
          /\ feed[nret.user][k].read
          /\ Unread(feed[nret.user]) # {}

\* C14: mark_all_read(user) returns the number of entries of the user that
\* were unread, leaves all of them read and every other feed as it was; a
\* second call right after it returns 0
C14_MarkAllReadCounts ==
    [][nret'.op = "mark_all_read"
         => LET u == nret'.user
            IN  /\ nret'.count = Cardinality(Unread(feed[u]))
                /\ feed'[u] = AllRead(feed[u])
                /\ \A v \in Users \ {u} : feed'[v] = feed[v]
                /\ (nret.op = "mark_all_read" /\ nret.user = u)
                      => nret'.count = 0]_vars

\* C14 witness: mark_all_read answered 0 on a feed of several entries,
\* all read, while the other user still has an unread entry
C14_Witness ==
    /\ nret.op = "mark_all_read"
    /\ nret.count = 0
    /\ Len(feed[nret.user]) >= 2
    /\ Unread(feed[nret.user]) = {}
    /\ \E v \in Users \ {nret.user} : Unread(feed[v]) # {}

\* the ids of the thaw reminders that name meal m, in the feed of its user
ThawIds(m) ==
    LET fd == feed[meals[m].user_id]
    IN  {fd[k].id : k \in {j \in 1..Len(fd) : /\ fd[j].type = "thaw_reminder"
                                               /\ fd[j].meal_plan_id = m}}
\* the ingredients of the meal's recipe the user keeps frozen
FrozenIngredients(m) ==
    IF meals[m].recipe_id = NoneStr THEN {}
    ELSE {c \in recipe_ingredients(meals[m].recipe_id) :
             TruthyStr(c) /\ frozen_items(meals[m].user_id, c) # {}}

C16_AlertsFromStatus ==
    nret.op = "generate_freshness_alerts"
        => LET u == nret.user
               new == SubSeq(feed[u], 1, nret.count)
               due == {i \in ItemIds : /\ items[i].user_id = u
                                       /\ items[i].freshness_status \in AlertStatuses}
           IN  /\ nret.count = Cardinality(due)
               /\ \A i \in ItemIds :
                     LET es == {k \in 1..Len(new) : new[k].item_id = i}
                         st == items[i].freshness_status
                     IN  IF i \in due
                         THEN /\ Cardinality(es) = 1
                              /\ \A k \in es :
                                    /\ new[k].type = "freshness_alert"
                                    /\ ~new[k].read
                                    /\ <<new[k].severity, new[k].action_label>> =
                                         (CASE st = "use_today" -> <<"high", "Find recipes">>
                                            [] st = "use_soon" -> <<"medium", "View item">>
                                            [] st = "expired" -> <<"critical", "Log waste">>)
                         ELSE es = {}

\* C16 witness: a second call for a user with items in all three states,
\* the alerts of the first call still behind those of the second
C16_Witness ==
    /\ nret.op = "generate_freshness_alerts"
    /\ nret.count = 3
    /\ Len(feed[nret.user]) >= 6
    /\ \A k \in 1..3 :
          /\ feed[nret.user][k + 3].type = "freshness_alert"
          /\ feed[nret.user][k + 3].item_id = feed[nret.user][k].item_id
          /\ feed[nret.user][k + 3].id # feed[nret.user][k].id
    /\ \E i \in ItemIds :
          items[i].user_id # nret.user /\ items[i].freshness_status = "fresh"

(***************************************************************************)
(* Claims about the stored status, checked under SpecBatch                 *)
(***************************************************************************)
\* C17: after any sequence of single-item classifications, scans and batch
\* freshness checks, whatever the estimator replied, the freshness_status
\* of every pantry item is fresh, use_soon, use_today or expired
C17_StatusInDomain ==
    \A i \in ItemIds : items[i].freshness_status \in Statuses

\* C20: when a rule exists for the item's canonical name and force_ai is
\* false, update_item_freshness makes no estimator call, available or not,
\* and stores the status and the effective expiration of the rule-based
\* classification with that rule
C20_RuleBeforeEstimator ==
    \A p \in Procs :
        (Returned(p, "update") /\ frame[p].rule # None /\ ~frame[p].force_ai)
            => LET f   == frame[p]
                   r   == calculate_freshness_rule_based(f.row[1], f.rule, f.day)
                   now == items[f.item]
               IN  /\ f.estimator = "none"
                   /\ now.freshness_status = r.status
                   /\ now.freshness_expires_at = r.effective_exp
                   /\ ret[p].detail[1].new_status = r.status
                   /\ ret[p].detail[1].effective_expiration = IsoOrNone(r.effective_exp)

\* C20 witness: an estimator was passed, the rule decided, and the category
\* defaults would have given another effective expiration
C20_Witness ==
    \E p \in Procs :
        /\ Returned(p, "update")
        /\ frame[p].rule # None
        /\ ~frame[p].force_ai
        /\ frame[p].ai
        /\ items[frame[p].item].freshness_expires_at
              # calculate_freshness_rule_based(frame[p].row[1], None,
                                               frame[p].day).effective_exp

(***************************************************************************)
(* Claims about the estimator's answers                                    *)
(***************************************************************************)
\* an estimate with a status and a date that parses
WellFormed(reply) ==
    /\ reply.kind = "ok"
    /\ TruthyStr(reply.freshness_status)
    /\ TruthyStr(reply.effective_expiration_date)
    /\ fromisoformat(reply.effective_expiration_date) # None

\* C21: a direct call with an estimator, for an item without an exact rule
\* or with force_ai set, whose estimator neither raised nor answered text
\* that does not parse, leaves on the item the status and the effective
\* expiration date of a well-formed estimate and reports them
C21_EstimateStored ==
    \A p \in Procs :
        (/\ Returned(p, "update")
         /\ frame[p].ai
         /\ (frame[p].rule = None \/ frame[p].force_ai)
         /\ frame[p].estimator \notin {"raise", "unparseable"})
            => \E reply \in AiReplies(frame[p].day) :
                  /\ WellFormed(reply)
                  /\ items[frame[p].item].freshness_status = reply.freshness_status
                  /\ items[frame[p].item].freshness_expires_at
                        = fromisoformat(reply.effective_expiration_date)
                  /\ ret[p].detail[1].new_status = reply.freshness_status

(***************************************************************************)
(* Claims about whole scans, checked under SpecRescan                      *)
(***************************************************************************)
\* what update_item_freshness leaves on a row, given the rule table, for
\* each answer the estimator call can end with
ScanOutcomes(row, tbl, ai, day) ==
    LET c    == canonical_of(row)
        rule == IF TruthyStr(c) THEN lookup_rule(tbl, c) ELSE None
    IN  {classify(row, rule, c, ai, FALSE, reply, day, tbl) :
            reply \in calculate_freshness(day)}

C28_SecondRunIdle ==
    \A p \in Procs :
        (Returned(p, "scan") /\ frame[p].repeat)
            => /\ ret[p].items_changed = 0
               /\ ret[p].alerts = <<>>
               /\ items = pre[p]
               /\ rules = frame[p].rules_before

\* C28 witness: the second run returned after classifying two items, one of
\* which the first run had moved to expired
C28_Witness ==
    \E p \in Procs :
        /\ Returned(p, "scan")
        /\ frame[p].repeat
        /\ ret[p].items_scanned = 2
        /\ \E i \in ItemIds :
              /\ items[i].user_id = frame[p].user
              /\ items[i].freshness_status = "expired"

(***************************************************************************)
(* Claims about the on-demand scan, checked under SpecRoute                *)
(***************************************************************************)
\* the items a scan of p had to classify
DatedItems(p) ==
    {i \in ItemIds : pre[p][i].user_id = frame[p].user /\ has_date_info(pre[p][i])}

\* C23: when a freshness-scan request has answered, the estimator was
\* called for every dated item of the user if the body set force_ai
\* (items whose name has an exact rule included), and for no item if it
\* did not
C23_ForceAiAsksEveryItem ==
    \A p \in Procs :
        (Returned(p, "scan") /\ frame[p].caller = "route")
            => IF frame[p].body_force_ai
               THEN frame[p].asked = DatedItems(p)
               ELSE frame[p].asked = {}

(***************************************************************************)
(* Claims about the thaw reminders, checked under SpecThaw                 *)
(***************************************************************************)
\* the thaw reminders in the feed of u
ThawEntries(u) == {k \in 1..Len(feed[u]) : feed[u][k].type = "thaw_reminder"}

\* the reminder names a meal of the user with a recipe and an item of the
\* user stored in the freezer whose canonical name is an ingredient of
\* that recipe
FromFrozenIngredient(u, n) ==
    /\ meals[n.meal_plan_id].user_id = u
    /\ meals[n.meal_plan_id].recipe_id # NoneStr
    /\ items[n.item_id].user_id = u
    /\ items[n.item_id].location = "freezer"
    /\ items[n.item_id].canonical_name
          \in recipe_ingredients(meals[n.meal_plan_id].recipe_id)

\* C24: every thaw reminder in a feed is for a meal of the feed's owner
\* that references a recipe, and names a freezer item of that user whose
\* canonical name is a non-optional ingredient of the recipe
C24_RequiredIngredientsOnly ==
    \A u \in Users : \A k \in ThawEntries(u) :
        /\ FromFrozenIngredient(u, feed[u][k])
        /\ items[feed[u][k].item_id].canonical_name
              \notin optional_ingredients(meals[feed[u][k].meal_plan_id].recipe_id)

\* C30: a meal whose thaw_reminder_sent flag is set has at least one thaw
\* reminder in its owner's feed: a call that emitted nothing for the meal
\* left the flag false
C30_FlagOnlyAfterReminder ==
    \A m \in MealIds : meals[m].thaw_reminder_sent => ThawIds(m) # {}

(***************************************************************************)
(* Claims about who writes the freshness fields, checked under SpecPantry  *)
(***************************************************************************)
\* C25: a step that changes an item's freshness_status or
\* freshness_expires_at is the classification of that item by
\* update_item_freshness
C25_OnlyEngineWrites ==
    [][\A i \in ItemIds :
          (\/ items'[i].freshness_status # items[i].freshness_status
           \/ items'[i].freshness_expires_at # items[i].freshness_expires_at)
             => \E p \in Procs : /\ pc[p] = "classify"
                                 /\ frame[p].item = i
                                 /\ pc'[p] # "classify"]_vars

(***************************************************************************)
(* Claims about the block that adopts an estimate, checked under           *)
(* SpecEstimate                                                            *)
(***************************************************************************)
Estimated == result # NoResult
\* the status of line 160 and the date of lines 161-166 when it parses
EstimateStatus ==
    IF probe.reply.freshness_status = NoneStr THEN "fresh"
    ELSE probe.reply.freshness_status
EstimateDate ==
    IF TruthyStr(probe.reply.effective_expiration_date)
    THEN fromisoformat(probe.reply.effective_expiration_date) ELSE None
\* the insert of the rule to cache meets a row of the same canonical name
InsertConflicts ==
    /\ probe.rule = None
    /\ \E k \in 1..Len(probe.tbl) :
          probe.tbl[k].canonical_name = canonical_of(probe.item)

RuleCached ==
    /\ Estimated
    /\ ~result.rolled_back
    /\ Len(result.rules) = Len(probe.tbl) + 1
CachedRule == result.rules[Len(result.rules)]

====
